---- MODULE Spec2Model ----
(***************************************************************************)
(* State-machine model of ReinforceIFEvalTrainer                           *)
(* (nemo_aligner/algorithms/reinforce_ifeval.py): the fit control loop run *)
(* by every data-parallel worker, the rollout rounds with their reward-    *)
(* critic requests, the collectives, and the checkpoint state.             *)
(***************************************************************************)
EXTENDS Integers, Sequences, FiniteSets, TLC

\* ------------------------------------------------------------------ bounds
DP == 2                \* largest data-parallel world size explored
MaxEpochs == 2         \* largest cfg.max_epochs
MaxStepsPerEpoch == 2  \* largest num_steps_per_epoch
MaxOverride == 1       \* largest explicit cfg.max_steps override
MaxMB == 2             \* largest number of rollout microbatches per step
MaxGen == 2            \* largest generation_iter
MaxDup == 2            \* largest duplicate_prompts
MaxData == 2           \* largest number of microbatches in a data source
MaxInterval == 1       \* largest val_check_interval / save_interval
MaxChunk == 2          \* largest per-worker training batch tried besides 1 and the whole buffer
MaxReward == 2         \* largest reward-model score of a sample
MaxSeq == 3            \* number of log-prob positions of a sample
MaxKL == 1             \* largest per-token KL value
MaxRows == 3           \* largest number of samples in a rollout record
MaxMicro == 2          \* largest micro_batch_size of a rollout microbatch

VARIABLES
  cfg,                          \* the run's configuration (never changes)
  dp_size,                      \* parallel_state.get_data_parallel_world_size()
  dataLen,                      \* per worker: microbatches a fresh iterator holds
  pc,                           \* per worker: position in fit / in the checkpoint protocol
  step,                         \* self.step
  consumed_samples,             \* self.consumed_samples
  reinforce_optimization_step,  \* self.reinforce_optimization_step
  max_steps,                    \* self.max_steps
  loc,                          \* per worker: the locals of fit and _run_inference
  outstanding,                  \* per worker: reward-critic futures issued and not yet joined
  collLog,                      \* per worker: the collectives entered so far, in order
  obs,                          \* per worker: history of the calls made (observation only)
  sd,                           \* per worker: the state dict held for load_state_dict
  persisted,                    \* per worker: monitor_candidates of the last save
  loadResult,                   \* per worker: outcome of the last load_state_dict
  batch                         \* the rollout records of one generation cycle, per worker

vars == <<cfg, dp_size, dataLen, pc, step, consumed_samples, reinforce_optimization_step,
          max_steps, loc, outstanding, collLog, obs, sd, persisted, loadResult, batch>>

AllWorkers == 0 .. (DP - 1)
Workers == 0 .. (dp_size - 1)

Min(a, b) == IF a <= b THEN a ELSE b
Max(a, b) == IF a >= b THEN a ELSE b

\* ------------------------------------------------------- pure helpers

\* megatron divide(): exact division (the configurations explored are divisible)
divide(a, b) == a \div b

compute_num_rollout_microbatches(gbs, mbs, dp) == divide(divide(gbs, mbs), dp)

set_max_steps_IgnoreOverride(c) == c.num_steps_per_epoch * c.max_epochs
set_max_steps(c) ==
  LET m == c.num_steps_per_epoch * c.max_epochs
  IN  IF c.max_steps >= 0 THEN Min(m, c.max_steps) ELSE m

epoch_RoundedUp(s, c) == (s + c.num_steps_per_epoch - 1) \div c.num_steps_per_epoch
epoch(s, c) == s \div c.num_steps_per_epoch

\* number of steps the inner loop of one epoch iteration runs (fit, line 426)
num_steps_in_epoch_NoCap(ms, s, c) ==
  c.num_steps_per_epoch - (s % c.num_steps_per_epoch)
num_steps_in_epoch(ms, s, c) ==
  Min(ms - s, c.num_steps_per_epoch - (s % c.num_steps_per_epoch))

\* samples of one accumulated training record: the microbatch duplicated
\* duplicate_prompts times, generated generation_iter times
record_size(c) == c.micro_batch_size * c.duplicate_prompts * c.generation_iter

\* the break test at the head of a step (fit, line 450)
DataExhaustedOffByOne(remaining, needed) == remaining < needed - 1
DataExhausted(remaining, needed) == remaining < needed

\* the calls of one generation round of the training path, in program order
TrainRoundOrderNoJoin == <<"infer", "critic_issue", "init_lp">>
TrainRoundOrder == <<"infer", "critic_issue", "critic_join", "init_lp">>

\* the calls of one microbatch of the validation path, in program order
ValRoundOrder == <<"infer", "critic_issue", "critic_join">>

\* keys of reinforce_rollout_data, in insertion order: one global padding each
PadFields == <<"mask", "response_tokens", "rewards", "baseline">>

\* check_progress(step, max_steps, val_check_interval, save_interval, ..)
check_progress(s, ms, val_int, save_int, rte) ==
  LET is_train_end == (s = ms)
  IN  [run_val      |-> (val_int > 0) /\ (s % val_int = 0),
       save_model   |-> (save_int > 0) /\ ((s % save_int = 0) \/ is_train_end \/ rte),
       is_train_end |-> is_train_end]

\* the return at the end of a step (fit, line 529)
StopAfterStepNever(rte) == FALSE
StopAfterStepAlways(rte) == TRUE
StopAfterStep(rte) == rte

\* the precondition of fit (line 409)
ConfigRejectedWhateverEpochs(c) == ~c.random_sampler
ConfigRejected(c) == (~c.random_sampler) /\ (c.max_epochs > 1)

\* ------------------------------------------------------- checkpoint state

state_dict_BeforeIncrement(w) ==
  [k \in {"step", "consumed_samples", "epoch", "ppo_optimization_step"} |->
     CASE k = "step" -> step[w] - 1
       [] k = "consumed_samples" -> consumed_samples[w]
       [] k = "epoch" -> (step[w] - 1) \div cfg.num_steps_per_epoch
       [] OTHER -> reinforce_optimization_step[w]]

StateKeysNoEpoch == {"step", "consumed_samples", "ppo_optimization_step"}
StateKeys == {"step", "consumed_samples", "epoch", "ppo_optimization_step"}

state_dict(w) ==
  [k \in StateKeys |->
     CASE k = "step" -> step[w]
       [] k = "consumed_samples" -> consumed_samples[w]
       [] k = "epoch" -> epoch(step[w], cfg)
       [] OTHER -> reinforce_optimization_step[w]]

\* step_metrics handed to save as extra_candidates (fit, lines 516-526)
ExtraKeys(run_val) ==
  {"rollout_time", "train_time", "train_consumed_samples", "train_epoch"}
    \cup (IF run_val THEN {"validation_time"} ELSE {})

NoDict == <<>>

\* no generation cycle is being followed
NoBatch == [stage |-> "none"]

\* ------------------------------------------------------- initial states

LocInit ==
  [epochsLeft |-> 0, stepsLeft |-> 0, remaining |-> 0, mbLeft |-> 0, records |-> 0,
   roundsLeft |-> 0, idx |-> 1, padIdx |-> 1, chunksLeft |-> 0, after |-> "none",
   run_time_exceeded |-> FALSE, run_val |-> FALSE, save_model |-> FALSE,
   is_train_end |-> FALSE, rollout_size |-> 0, trained |-> 0]

ObsInit ==
  [infers |-> 0, critics |-> 0, initlps |-> 0, lpOutstanding |-> 0, trains |-> 0,
   vals |-> 0, saves |-> 0, timerChecks |-> 0, completed |-> 0, finalizes |-> 0,
   rollouts |-> 0, short |-> FALSE, snap |-> <<>>, brk |-> FALSE, expired |-> FALSE,
   pre |-> <<>>, own |-> FALSE, start |-> <<>>, failed |-> FALSE]

\* the configurations over the given value sets; model_gbs is either one sample
\* per worker or the whole per-worker rollout buffer
Configs(dp, epochs, spes, overrides, mbs, gens, dups, intervals, samplers) ==
  { c \in [max_epochs : epochs, num_steps_per_epoch : spes, max_steps : overrides,
           random_sampler : samplers, micro_batch_size : {1},
           global_batch_size : {dp * k : k \in mbs},
           val_global_batch_size : {dp},
           generation_iter : gens, duplicate_prompts : dups,
           model_gbs : {dp * k : k \in 1 .. (MaxMB * MaxGen * MaxDup)},
           val_check_interval : intervals, save_interval : intervals] :
      LET n  == compute_num_rollout_microbatches(c.global_batch_size, c.micro_batch_size, dp)
          rs == n * record_size(c)
          k  == divide(c.model_gbs, dp)
      IN  k \in {1, rs} }

\* the samples and optimizer steps a run has made when it stands at step s
SamplesPerStep(c, dp) ==
  compute_num_rollout_microbatches(c.global_batch_size, c.micro_batch_size, dp)
    * record_size(c) * dp
ChunksPerStep(c, dp) ==
  divide(compute_num_rollout_microbatches(c.global_batch_size, c.micro_batch_size, dp)
           * record_size(c), divide(c.model_gbs, dp))

\* fit is about to be called on a trainer standing at one of the steps in starts
\* (0: freshly constructed; otherwise restored from a checkpoint of this run)
InitCommon(starts) ==
  /\ pc = [w \in AllWorkers |-> IF w \in Workers THEN "fit_start" ELSE "off"]
  /\ max_steps = [w \in AllWorkers |-> set_max_steps(cfg)]
  /\ \E s0 \in starts :
       /\ s0 <= set_max_steps(cfg)
       /\ step = [w \in AllWorkers |-> s0]
       /\ consumed_samples = [w \in AllWorkers |-> s0 * SamplesPerStep(cfg, dp_size)]
       /\ reinforce_optimization_step = [w \in AllWorkers |-> s0 * ChunksPerStep(cfg, dp_size)]
  /\ loc = [w \in AllWorkers |-> LocInit]
  /\ outstanding = [w \in AllWorkers |-> 0]
  /\ collLog = [w \in AllWorkers |-> <<>>]
  /\ obs = [w \in AllWorkers |-> ObsInit]
  /\ sd = [w \in AllWorkers |-> NoDict]
  /\ persisted = [w \in AllWorkers |-> NoDict]
  /\ loadResult = [w \in AllWorkers |-> "none"]
  /\ batch = NoBatch

\* one worker, every loop-control setting, the smallest rollout shape
InitLoop ==
  /\ dp_size = 1
  /\ cfg \in Configs(1, 1 .. MaxEpochs, 1 .. MaxStepsPerEpoch, {-1} \cup (0 .. MaxOverride),
                     {1}, {1}, {1}, 0 .. MaxInterval, BOOLEAN)
  /\ \E d \in 0 .. MaxData : dataLen = [w \in AllWorkers |-> d]
  /\ InitCommon(0 .. (MaxEpochs * MaxStepsPerEpoch))

\* one worker, every rollout shape, one epoch; model_gbs also takes values that
\* are neither one sample nor the whole buffer, dividing the buffer or not
InitRollout ==
  /\ dp_size = 1
  /\ \E c \in Configs(1, {1}, 1 .. MaxStepsPerEpoch, {-1},
                       1 .. MaxMB, 1 .. MaxGen, 1 .. MaxDup, {1}, {TRUE}) :
       cfg \in {c} \cup {[c EXCEPT !.model_gbs = k] : k \in 1 .. MaxChunk}
  /\ \E d \in 0 .. MaxData : dataLen = [w \in AllWorkers |-> d]
  /\ InitCommon({0})

\* several workers, each with its own data source, empty or full (with one step
\* per epoch and one microbatch per step no other length behaves differently)
InitGroup ==
  /\ dp_size \in 2 .. DP
  /\ cfg \in { c \in Configs(dp_size, 1 .. MaxEpochs, {1}, {-1}, {1}, {1}, {1},
                             0 .. 1, {TRUE}) :
               c.val_check_interval = c.save_interval }
  /\ dataLen \in [AllWorkers -> {0, MaxData}]
  /\ \A w \in AllWorkers \ Workers : dataLen[w] = 0
  /\ InitCommon({0})

Init == InitLoop \/ InitRollout \/ InitGroup

\* ------------------------------------------------------- fit, per worker

NumMB == compute_num_rollout_microbatches(cfg.global_batch_size, cfg.micro_batch_size, dp_size)
NumValMB == compute_num_rollout_microbatches(cfg.val_global_batch_size, cfg.micro_batch_size, dp_size)

SetLoc(w, r) == loc' = [loc EXCEPT ![w] = r]
SetObs(w, r) == obs' = [obs EXCEPT ![w] = r]
Goto(w, p) == pc' = [pc EXCEPT ![w] = p]

Counters(w) == <<step[w], consumed_samples[w], reinforce_optimization_step[w]>>
CallCounts(w) == <<obs[w].infers, obs[w].critics, obs[w].trains, obs[w].vals, obs[w].saves>>

UNCHANGED_TRAINER == UNCHANGED <<step, consumed_samples, reinforce_optimization_step, max_steps>>
UNCHANGED_ENV == UNCHANGED <<cfg, dp_size, dataLen, sd, loadResult, batch>>

\* fit, lines 409-418: the configuration is rejected with a ValueError
FitReject(w) ==
  /\ pc[w] = "fit_start"
  /\ ConfigRejected(cfg)
  /\ Goto(w, "error")
  /\ SetObs(w, [obs[w] EXCEPT !.start = Counters(w)])
  /\ UNCHANGED_TRAINER /\ UNCHANGED_ENV
  /\ UNCHANGED <<loc, outstanding, collLog, persisted>>

\* fit, lines 420-423: epoch_iter = range(self.epoch, max_epochs)
FitStart(w) ==
  /\ pc[w] = "fit_start"
  /\ ~ConfigRejected(cfg)
  /\ LET n == cfg.max_epochs - epoch(step[w], cfg)
     IN  IF n <= 0
         THEN Goto(w, "returned") /\ UNCHANGED loc
         ELSE Goto(w, "epoch_head") /\ SetLoc(w, [loc[w] EXCEPT !.epochsLeft = n])
  /\ SetObs(w, [obs[w] EXCEPT !.start = Counters(w)])
  /\ UNCHANGED_TRAINER /\ UNCHANGED_ENV
  /\ UNCHANGED <<outstanding, collLog, persisted>>

\* fit, lines 425-443: one iteration of the epoch loop begins
EpochHead(w) ==
  /\ pc[w] = "epoch_head"
  /\ LET n == num_steps_in_epoch(max_steps[w], step[w], cfg)
     IN  IF n <= 0
         THEN Goto(w, "returned") /\ UNCHANGED loc
         ELSE /\ Goto(w, "step_head")
              /\ SetLoc(w, [loc[w] EXCEPT !.stepsLeft = n, !.remaining = dataLen[w]])
  /\ UNCHANGED_TRAINER /\ UNCHANGED_ENV
  /\ UNCHANGED <<outstanding, collLog, obs, persisted>>

\* len(dataloader_iter): the data source's remaining-length query, the number of
\* microbatches the iterator has not yet handed out
RemainingLength(w) == loc[w].remaining

StepSnapshot(w) ==
  [obs[w] EXCEPT !.short = (RemainingLength(w) < NumMB),
                 !.snap = <<Counters(w), CallCounts(w)>>]

\* fit, lines 450-451: the data source is exhausted, break
StepBreak(w) ==
  /\ pc[w] = "step_head"
  /\ DataExhausted(RemainingLength(w), NumMB)
  /\ Goto(w, "epoch_next")
  /\ SetObs(w, [StepSnapshot(w) EXCEPT !.brk = TRUE])
  /\ UNCHANGED_TRAINER /\ UNCHANGED_ENV
  /\ UNCHANGED <<loc, outstanding, collLog, persisted>>

\* fit, line 452: generate_rollouts is entered
StepBegin(w) ==
  /\ pc[w] = "step_head"
  /\ ~DataExhausted(RemainingLength(w), NumMB)
  /\ Goto(w, "mb_head")
  /\ SetLoc(w, [loc[w] EXCEPT !.mbLeft = NumMB, !.records = 0])
  /\ SetObs(w, [StepSnapshot(w) EXCEPT !.rollouts = @ + 1])
  /\ UNCHANGED_TRAINER /\ UNCHANGED_ENV
  /\ UNCHANGED <<outstanding, collLog, persisted>>

\* fit, lines 425 and 533: the next epoch iteration, or finalize and return
EpochNext(w) ==
  /\ pc[w] = "epoch_next"
  /\ IF loc[w].epochsLeft <= 1
     THEN /\ Goto(w, "returned")
          /\ SetObs(w, [obs[w] EXCEPT !.finalizes = @ + 1])
     ELSE /\ Goto(w, "epoch_head")
          /\ UNCHANGED obs
  /\ SetLoc(w, [loc[w] EXCEPT !.epochsLeft = @ - 1])
  /\ UNCHANGED_TRAINER /\ UNCHANGED_ENV
  /\ UNCHANGED <<outstanding, collLog, persisted>>

\* _run_inference, line 190: zip(range(num_microbatches), dataloader_iter)
MbHead(w) ==
  /\ pc[w] = "mb_head"
  /\ IF loc[w].mbLeft = 0 \/ loc[w].remaining = 0
     THEN /\ Goto(w, "metrics")
          /\ SetLoc(w, [loc[w] EXCEPT !.after = "assemble"])
     ELSE /\ Goto(w, "train_round")
          /\ SetLoc(w, [loc[w] EXCEPT !.mbLeft = @ - 1, !.remaining = @ - 1,
                                      !.roundsLeft = cfg.generation_iter, !.idx = 1])
  /\ UNCHANGED_TRAINER /\ UNCHANGED_ENV
  /\ UNCHANGED <<outstanding, collLog, obs, persisted>>

\* the call the worker is about to make inside a round
CurOp(w) ==
  IF pc[w] = "train_round" THEN TrainRoundOrder[loc[w].idx]
  ELSE IF pc[w] = "val_round" THEN ValRoundOrder[loc[w].idx]
  ELSE "none"

\* the position after the current call of a round
RoundAdvance(w) ==
  IF pc[w] = "train_round"
  THEN IF loc[w].idx < Len(TrainRoundOrder)
       THEN Goto(w, "train_round") /\ SetLoc(w, [loc[w] EXCEPT !.idx = @ + 1])
       ELSE IF loc[w].roundsLeft > 1
            THEN /\ Goto(w, "train_round")
                 /\ SetLoc(w, [loc[w] EXCEPT !.idx = 1, !.roundsLeft = @ - 1])
            ELSE /\ Goto(w, "mb_head")
                 /\ SetLoc(w, [loc[w] EXCEPT !.idx = 1, !.roundsLeft = 0, !.records = @ + 1])
  ELSE IF loc[w].idx < Len(ValRoundOrder)
       THEN Goto(w, "val_round") /\ SetLoc(w, [loc[w] EXCEPT !.idx = @ + 1])
       ELSE /\ Goto(w, "val_mb_head")
            /\ SetLoc(w, [loc[w] EXCEPT !.idx = 1, !.records = @ + 1])

\* self.model.infer (lines 203, 208, 262)
Infer(w) ==
  /\ CurOp(w) = "infer"
  /\ RoundAdvance(w)
  /\ SetObs(w, [obs[w] EXCEPT !.infers = @ + 1])
  /\ UNCHANGED_TRAINER /\ UNCHANGED_ENV
  /\ UNCHANGED <<outstanding, collLog, persisted>>

\* self.rm_critic.infer_rm_critic returns a future (lines 221, 264)
CriticIssue(w) ==
  /\ CurOp(w) = "critic_issue"
  /\ RoundAdvance(w)
  /\ outstanding' = [outstanding EXCEPT ![w] = @ + 1]
  /\ SetObs(w, [obs[w] EXCEPT !.critics = @ + 1])
  /\ UNCHANGED_TRAINER /\ UNCHANGED_ENV
  /\ UNCHANGED <<collLog, persisted>>

\* future.result() (lines 222, 265)
CriticJoin(w) ==
  /\ CurOp(w) = "critic_join"
  /\ RoundAdvance(w)
  /\ outstanding' = [outstanding EXCEPT ![w] = @ - 1]
  /\ UNCHANGED_TRAINER /\ UNCHANGED_ENV
  /\ UNCHANGED <<collLog, obs, persisted>>

\* self.model.get_init_policy_logprobs (line 225)
InitLp(w) ==
  /\ CurOp(w) = "init_lp"
  /\ RoundAdvance(w)
  /\ SetObs(w, [obs[w] EXCEPT !.initlps = @ + 1, !.lpOutstanding = outstanding[w]])
  /\ UNCHANGED_TRAINER /\ UNCHANGED_ENV
  /\ UNCHANGED <<outstanding, collLog, persisted>>

\* entering a collective: the worker then waits for the whole group
EnterCollective(w, kind) ==
  /\ collLog' = [collLog EXCEPT ![w] = Append(@, kind)]
  /\ Goto(w, "wait")

\* compute_global_rollout_metrics, line 321: all_reduce over the group
MetricsAllReduce(w) ==
  /\ pc[w] = "metrics"
  /\ EnterCollective(w, "all_reduce")
  /\ UNCHANGED_TRAINER /\ UNCHANGED_ENV
  /\ UNCHANGED <<loc, outstanding, obs, persisted>>

\* a collective completes once every worker of the group has entered it
LeaveCollective(w) ==
  /\ pc[w] = "wait"
  /\ \A v \in Workers : Len(collLog[v]) >= Len(collLog[w])
  /\ Goto(w, loc[w].after)
  /\ UNCHANGED_TRAINER /\ UNCHANGED_ENV
  /\ UNCHANGED <<loc, outstanding, collLog, obs, persisted>>

\* generate_reinforce_data, lines 107-141: the keys exist only if a record was seen;
\* with none, generate_rollouts fails on reinforce_rollout_data["response_tokens"].size
Assemble(w) ==
  /\ pc[w] = "assemble"
  /\ IF loc[w].records = 0
     THEN Goto(w, "error") /\ UNCHANGED loc
     ELSE Goto(w, "pad") /\ SetLoc(w, [loc[w] EXCEPT !.padIdx = 1])
  /\ UNCHANGED_TRAINER /\ UNCHANGED_ENV
  /\ UNCHANGED <<outstanding, collLog, obs, persisted>>

\* generate_reinforce_data, lines 141-157: pad_tensors_to_max_global_seq_len per key
PadAgree(w) ==
  /\ pc[w] = "pad"
  /\ EnterCollective(w, PadFields[loc[w].padIdx])
  /\ SetLoc(w, [loc[w] EXCEPT !.padIdx = @ + 1,
                              !.after = IF loc[w].padIdx < Len(PadFields)
                                        THEN "pad" ELSE "consume"])
  /\ UNCHANGED_TRAINER /\ UNCHANGED_ENV
  /\ UNCHANGED <<outstanding, obs, persisted>>

\* generate_rollouts, lines 365-367: the samples counted for one rollout cycle
samples_consumed_ThisWorkerOnly(rollout_size, dp) == rollout_size
samples_consumed(rollout_size, dp) == rollout_size * dp

\* divide() refuses a numerator that is not a multiple of the denominator
Divisible(a, b) == a % b = 0

\* fit, lines 475-476: the number of chunks the rollout buffer is split into
num_chunks_OneChunk(rollout_size, num_to_load_on_each_dp) == 1
num_chunks(rollout_size, num_to_load_on_each_dp) ==
  divide(rollout_size, num_to_load_on_each_dp)

\* get_iterator_k_split: k consecutive chunks of equal size
chunk_size(rollout_size, k) == rollout_size \div k

\* generate_rollouts, lines 365-367, and fit, lines 473-477: the cycle's samples
\* are counted, then the buffer is split; divide fails if it cannot be split evenly
Consume(w) ==
  /\ pc[w] = "consume"
  /\ LET rollout_size == loc[w].records * record_size(cfg)
         num_to_load_on_each_dp == divide(cfg.model_gbs, dp_size)
     IN  /\ consumed_samples' =
               [consumed_samples EXCEPT ![w] = @ + samples_consumed(rollout_size, dp_size)]
         /\ IF Divisible(rollout_size, num_to_load_on_each_dp)
            THEN /\ SetLoc(w, [loc[w] EXCEPT
                                 !.chunksLeft = num_chunks(rollout_size, num_to_load_on_each_dp),
                                 !.rollout_size = rollout_size, !.trained = 0])
                 /\ Goto(w, "train")
                 /\ UNCHANGED obs
            ELSE /\ SetLoc(w, [loc[w] EXCEPT !.rollout_size = rollout_size, !.trained = 0])
                 /\ Goto(w, "failed")
                 /\ SetObs(w, [obs[w] EXCEPT !.failed = TRUE])
  /\ UNCHANGED <<step, reinforce_optimization_step, max_steps>>
  /\ UNCHANGED_ENV
  /\ UNCHANGED <<outstanding, collLog, persisted>>

\* run_training, lines 373-400: one optimizer step on one chunk
TrainStep(w) ==
  /\ pc[w] = "train"
  /\ loc[w].chunksLeft > 0
  /\ reinforce_optimization_step' = [reinforce_optimization_step EXCEPT ![w] = @ + 1]
  /\ SetLoc(w, [loc[w] EXCEPT
                  !.chunksLeft = @ - 1,
                  !.trained = @ + chunk_size(loc[w].rollout_size,
                                             num_chunks(loc[w].rollout_size,
                                                        divide(cfg.model_gbs, dp_size)))])
  /\ SetObs(w, [obs[w] EXCEPT !.trains = @ + 1])
  /\ UNCHANGED <<pc, step, consumed_samples, max_steps>>
  /\ UNCHANGED_ENV
  /\ UNCHANGED <<outstanding, collLog, persisted>>

\* fit, line 485
StepIncrement(w) ==
  /\ pc[w] = "train"
  /\ loc[w].chunksLeft = 0
  /\ step' = [step EXCEPT ![w] = @ + 1]
  /\ SetObs(w, [obs[w] EXCEPT !.completed = @ + 1])
  /\ Goto(w, "timer_check")
  /\ UNCHANGED <<consumed_samples, reinforce_optimization_step, max_steps>>
  /\ UNCHANGED_ENV
  /\ UNCHANGED <<loc, outstanding, collLog, persisted>>

\* fit, lines 487-495: run_timer.is_finished() and check_progress
TimerCheck(w) ==
  /\ pc[w] = "timer_check"
  /\ \E fin \in BOOLEAN :
       LET cp == check_progress(step[w], max_steps[w], cfg.val_check_interval,
                                cfg.save_interval, fin)
       IN  /\ SetLoc(w, [loc[w] EXCEPT !.run_time_exceeded = fin,
                                       !.run_val = cp.run_val,
                                       !.save_model = cp.save_model,
                                       !.is_train_end = cp.is_train_end,
                                       !.mbLeft = NumValMB])
           /\ SetObs(w, [obs[w] EXCEPT !.timerChecks = @ + 1,
                                       !.expired = fin,
                                       !.vals = IF cp.run_val THEN @ + 1 ELSE @])
           /\ Goto(w, IF cp.run_val THEN "val_mb_head" ELSE "save_check")
  /\ UNCHANGED_TRAINER /\ UNCHANGED_ENV
  /\ UNCHANGED <<outstanding, collLog, persisted>>

\* _run_inference, line 261: the validation microbatches
ValMbHead(w) ==
  /\ pc[w] = "val_mb_head"
  /\ IF loc[w].mbLeft = 0
     THEN /\ Goto(w, "metrics")
          /\ SetLoc(w, [loc[w] EXCEPT !.after = "save_check"])
     ELSE /\ Goto(w, "val_round")
          /\ SetLoc(w, [loc[w] EXCEPT !.mbLeft = @ - 1, !.idx = 1])
  /\ UNCHANGED_TRAINER /\ UNCHANGED_ENV
  /\ UNCHANGED <<outstanding, collLog, obs, persisted>>

\* fit, line 524
SaveCheck(w) ==
  /\ pc[w] = "save_check"
  /\ IF loc[w].save_model
     THEN Goto(w, "barrier") /\ SetLoc(w, [loc[w] EXCEPT !.after = "save_write"])
     ELSE Goto(w, "decide") /\ UNCHANGED loc
  /\ UNCHANGED_TRAINER /\ UNCHANGED_ENV
  /\ UNCHANGED <<outstanding, collLog, obs, persisted>>

\* save, line 562: torch.distributed.barrier()
CkptBarrier(w) ==
  /\ pc[w] = "barrier"
  /\ EnterCollective(w, "barrier")
  /\ UNCHANGED_TRAINER /\ UNCHANGED_ENV
  /\ UNCHANGED <<loc, outstanding, obs, persisted>>

\* save, lines 567-570: monitor_candidates handed to the checkpoint callback
monitor_candidates(w, extra) ==
  LET d == state_dict(w)
  IN  [k \in (DOMAIN d) \cup extra |-> IF k \in extra THEN 0 ELSE d[k]]

SaveWrite(w) ==
  /\ pc[w] = "save_write"
  /\ sd' = [sd EXCEPT ![w] = state_dict(w)]
  /\ persisted' = [persisted EXCEPT ![w] = monitor_candidates(w, ExtraKeys(loc[w].run_val))]
  /\ SetObs(w, [obs[w] EXCEPT !.saves = @ + 1])
  /\ Goto(w, "decide")
  /\ UNCHANGED_TRAINER
  /\ UNCHANGED <<cfg, dp_size, dataLen, loadResult, loc, outstanding, collLog, batch>>

\* fit, lines 529-531: the run timer expired, return
StepStop(w) ==
  /\ pc[w] = "decide"
  /\ StopAfterStep(loc[w].run_time_exceeded)
  /\ Goto(w, "returned")
  /\ UNCHANGED_TRAINER /\ UNCHANGED_ENV
  /\ UNCHANGED <<loc, outstanding, collLog, obs, persisted>>

\* fit, line 444: the next iteration of the step loop, or its end
StepContinue(w) ==
  /\ pc[w] = "decide"
  /\ ~StopAfterStep(loc[w].run_time_exceeded)
  /\ Goto(w, IF loc[w].stepsLeft <= 1 THEN "epoch_next" ELSE "step_head")
  /\ SetLoc(w, [loc[w] EXCEPT !.stepsLeft = @ - 1])
  /\ UNCHANGED_TRAINER /\ UNCHANGED_ENV
  /\ UNCHANGED <<outstanding, collLog, obs, persisted>>

\* an exception raised by an inference call, a reward-critic call, a collective
\* or a training sub-step propagates out of fit (nothing in fit catches it)
Fail(w) ==
  /\ \/ pc[w] \in {"train_round", "pad"}
     \/ pc[w] = "wait" /\ loc[w].after \in {"assemble", "pad", "consume"}
     \/ pc[w] = "train" /\ loc[w].chunksLeft > 0
  /\ Goto(w, "failed")
  /\ SetObs(w, [obs[w] EXCEPT !.failed = TRUE])
  /\ UNCHANGED_TRAINER /\ UNCHANGED_ENV
  /\ UNCHANGED <<loc, outstanding, collLog, persisted>>

Next ==
  \E w \in Workers :
    \/ FitReject(w) \/ FitStart(w) \/ EpochHead(w) \/ StepBreak(w) \/ StepBegin(w)
    \/ EpochNext(w) \/ MbHead(w) \/ Infer(w) \/ CriticIssue(w) \/ CriticJoin(w)
    \/ InitLp(w) \/ MetricsAllReduce(w) \/ LeaveCollective(w) \/ Assemble(w)
    \/ PadAgree(w) \/ Consume(w) \/ TrainStep(w) \/ StepIncrement(w) \/ TimerCheck(w)
    \/ ValMbHead(w) \/ SaveCheck(w) \/ CkptBarrier(w) \/ SaveWrite(w)
    \/ StepStop(w) \/ StepContinue(w) \/ Fail(w)

Spec == Init /\ [][Next]_vars

\* every worker is a running process: while some worker can take its next step,
\* a step is taken (a worker waiting in a collective lets the others run)
SpecLive == (InitLoop \/ InitGroup) /\ [][Next]_vars /\ WF_vars(Next)

\* ------------------------------------------------------- checkpoint protocol

\* significand bits of torch.float32, the dtype of the broadcast tensor
F32Precision == 24

\* spacing of the float32 values around n
RECURSIVE Ulp(_)
Ulp(n) == IF n < 2 ^ F32Precision THEN 1 ELSE 2 * Ulp(n \div 2)

\* torch.tensor(n, dtype=torch.float32): round to nearest, ties to even
F32(n) ==
  LET u == Ulp(n)
      q == n \div u
      r == n % u
  IN  IF 2 * r < u THEN q * u
      ELSE IF 2 * r > u THEN (q + 1) * u
      ELSE IF q % 2 = 0 THEN q * u ELSE (q + 1) * u

\* load_state_dict, lines 544-548: the values read from the dict
load_state_dict_WrongKey(d) == <<d["step"], d["consumed_samples"], d["step"]>>
load_state_dict(d) == <<d["step"], d["consumed_samples"], d["ppo_optimization_step"]>>

\* load_state_dict, lines 551-552: rank 0's values as a float32 tensor, broadcast
Broadcast(vals) == [i \in 1 .. 3 |-> F32(vals[i])]

\* load_state_dict, line 554: the int list compared with the float list
AssertSame(loaded, received) == loaded = received

\* steps a long run may stand at, on both sides of the float32 integer range
StepVals == {0, 1, 2 ^ F32Precision, 2 ^ F32Precision + 1}

\* the counters of this run when it stands at step s
CountersAt(s) == <<s, s * SamplesPerStep(cfg, dp_size), s * ChunksPerStep(cfg, dp_size)>>

\* state dicts a worker may be handed that are not its own snapshot: checkpoints
\* of this run taken at another step, with the epoch stored at that step or an
\* epoch that does not agree with the step (a checkpoint edited by hand, or
\* written under another num_steps_per_epoch)
EditDicts ==
  { [k \in {"step", "consumed_samples", "epoch", "ppo_optimization_step"} |->
       CASE k = "step" -> CountersAt(se[1])[1]
         [] k = "consumed_samples" -> CountersAt(se[1])[2]
         [] k = "epoch" -> epoch(se[1], cfg) + se[2]
         [] OTHER -> CountersAt(se[1])[3]] : se \in (StepVals \ {0}) \X {0, 1} }

InitCkpt ==
  /\ dp_size = DP
  /\ cfg \in Configs(DP, 1 .. MaxEpochs, {1, 2 ^ F32Precision + 1}, {-1},
                     {1}, 1 .. MaxGen, {1}, {0}, {TRUE})
  /\ dataLen = [w \in AllWorkers |-> 0]
  /\ pc = [w \in AllWorkers |-> "ckpt"]
  /\ max_steps = [w \in AllWorkers |-> set_max_steps(cfg)]
  /\ \E s \in StepVals :
       /\ s <= set_max_steps(cfg)
       /\ step = [w \in AllWorkers |-> CountersAt(s)[1]]
       /\ consumed_samples = [w \in AllWorkers |-> CountersAt(s)[2]]
       /\ reinforce_optimization_step = [w \in AllWorkers |-> CountersAt(s)[3]]
  /\ loc = [w \in AllWorkers |-> LocInit]
  /\ outstanding = [w \in AllWorkers |-> 0]
  /\ collLog = [w \in AllWorkers |-> <<>>]
  /\ obs = [w \in AllWorkers |-> ObsInit]
  /\ sd = [w \in AllWorkers |-> NoDict]
  /\ persisted = [w \in AllWorkers |-> NoDict]
  /\ loadResult = [w \in AllWorkers |-> "none"]
  /\ batch = NoBatch

UNCHANGED_FIT ==
  UNCHANGED <<cfg, dp_size, dataLen, loc, outstanding, collLog, persisted, batch>>

\* state_dict, lines 535-541, taken on every worker of the run
CkSnapshotAll ==
  /\ \A w \in Workers : pc[w] = "ckpt"
  /\ sd' = [w \in AllWorkers |-> state_dict(w)]
  /\ obs' = [w \in AllWorkers |-> [obs[w] EXCEPT !.pre = Counters(w), !.own = TRUE]]
  /\ loadResult' = [w \in AllWorkers |-> "none"]
  /\ UNCHANGED <<pc>>
  /\ UNCHANGED_TRAINER /\ UNCHANGED_FIT

\* a worker is handed another checkpoint's state dict
CkEdit(w) ==
  /\ \A v \in Workers : pc[v] = "ckpt"
  /\ \E d \in EditDicts : d["step"] <= set_max_steps(cfg) /\ sd' = [sd EXCEPT ![w] = d]
  /\ SetObs(w, [obs[w] EXCEPT !.own = FALSE])
  /\ loadResult' = [v \in AllWorkers |-> "none"]
  /\ UNCHANGED <<pc>>
  /\ UNCHANGED_TRAINER /\ UNCHANGED_FIT

\* __init__, lines 82-90: the job restarts, every trainer is constructed afresh
CkRestartAll ==
  /\ \A w \in Workers : pc[w] = "ckpt"
  /\ step' = [w \in AllWorkers |-> 0]
  /\ consumed_samples' = [w \in AllWorkers |-> 0]
  /\ reinforce_optimization_step' = [w \in AllWorkers |-> 0]
  /\ max_steps' = [w \in AllWorkers |-> set_max_steps(cfg)]
  /\ loadResult' = [w \in AllWorkers |-> "none"]
  /\ UNCHANGED <<pc, sd, obs>>
  /\ UNCHANGED_FIT

\* load_state_dict, lines 543-556, called on every worker (the broadcast is collective)
CkLoadAll ==
  /\ \A w \in Workers : pc[w] = "ckpt" /\ sd[w] # NoDict
  /\ LET loaded(w) == load_state_dict(sd[w])
         received == Broadcast(loaded(0))
         ok(w) == AssertSame(loaded(w), received)
     IN  /\ step' = [w \in AllWorkers |-> loaded(w)[1]]
         /\ consumed_samples' = [w \in AllWorkers |-> loaded(w)[2]]
         /\ reinforce_optimization_step' = [w \in AllWorkers |-> loaded(w)[3]]
         /\ max_steps' = [w \in AllWorkers |->
                            IF ok(w) THEN set_max_steps(cfg) ELSE max_steps[w]]
         /\ loadResult' = [w \in AllWorkers |-> IF ok(w) THEN "ok" ELSE "assert"]
         /\ pc' = [w \in AllWorkers |-> IF ok(w) THEN "ckpt" ELSE "error"]
  /\ UNCHANGED <<sd, obs>>
  /\ UNCHANGED_FIT

NextCkpt ==
  \/ CkSnapshotAll
  \/ \E w \in Workers : CkEdit(w)
  \/ CkRestartAll
  \/ CkLoadAll

SpecCkpt == InitCkpt /\ [][NextCkpt]_vars

\* ------------------------------------------------------- one generation cycle

\* A reward, and every multiplier or coefficient that scales one, is held as twice
\* its value, so that the multiplier 0.5 is the integer 1. A quotient is held as
\* the pair <<numerator, denominator>>; a denominator of 0 is torch's nan.

\* _run_inference, line 224: the blended reward of the training path
TrainRewardValFormula(rm, ifr, ifm, rm_mult2, if_mult2) ==
  if_mult2 * ifm * ifr + (1 - ifm) * rm * 2
TrainReward(rm, ifr, ifm, rm_mult2, if_mult2) == rm * rm_mult2 + ifm * ifr * if_mult2

\* _run_inference, line 267: the blended reward of the validation path
ValReward(rm, ifr, ifm, rm_mult2, if_mult2) == if_mult2 * ifm * ifr + (1 - ifm) * rm * 2

RECURSIVE SeqSum(_)
SeqSum(s) == IF s = <<>> THEN 0 ELSE Head(s) + SeqSum(Tail(s))

\* create_mask: 1 on the response positions, 0 on prompt and padding positions
create_mask(len, prompt_length, response_length) ==
  [p \in 1 .. len |-> IF prompt_length <= p /\ p < response_length THEN 1 ELSE 0]

\* line 251: (init_policy_kl * mask).mean(-1), the mean over the last dimension
per_sample_kl(kl_tokens, mask) ==
  <<SeqSum([p \in 1 .. Len(kl_tokens) |-> kl_tokens[p] * mask[p]]), Len(kl_tokens)>>

\* lines 240-251 for one sample; kl_tokens is what calculate_kl_penalty returned
kl_and_mask(row, compute_init_policy_kl) ==
  LET len  == Len(row.kl_tokens)
      mask == create_mask(len, row.prompt_length, row.response_length)
      init_policy_kl == IF compute_init_policy_kl THEN row.kl_tokens
                        ELSE [p \in 1 .. len |-> 0]
  IN  [row EXCEPT !.mask = mask, !.init_policy_kl = per_sample_kl(init_policy_kl, mask)]

\* get_rloo_baseline, line 166: numerator of the regularized reward, over the
\* sample's init_policy_kl denominator
regularized_reward(row, kl_penalty2) ==
  row.rewards * row.init_policy_kl[2] - kl_penalty2 * row.init_policy_kl[1]

\* line 172: 1 - torch.eye(n)
rloo_mat_Ones(n) == [i \in 1 .. n |-> [k \in 1 .. n |-> 1]]
rloo_mat(n) == [i \in 1 .. n |-> [k \in 1 .. n |-> IF i = k THEN 0 ELSE 1]]

RECURSIVE Dot(_, _)
Dot(a, b) == IF a = <<>> THEN 0 ELSE Head(a) * Head(b) + Dot(Tail(a), Tail(b))

\* line 171: the indices of the samples whose prompt tokens all equal u
prompt_idx(rows, u) ==
  SelectSeq([i \in 1 .. Len(rows) |-> i], LAMBDA i : rows[i].prompt_tokens = u)

\* lines 170-175: one pass per unique prompt, writing rloo at prompt_idx
RECURSIVE RlooLoop(_, _, _, _)
RlooLoop(rows, kl_penalty2, prompts, baseline) ==
  IF prompts = {} THEN baseline
  ELSE LET u    == CHOOSE x \in prompts : TRUE
           idx  == prompt_idx(rows, u)
           n    == Len(idx)
           reg  == [k \in 1 .. n |-> regularized_reward(rows[idx[k]], kl_penalty2)]
           den  == rows[idx[1]].init_policy_kl[2]
           rloo == [i \in 1 .. n |-> <<Dot(rloo_mat(n)[i], reg), (n - 1) * den>>]
           written == [j \in 1 .. Len(rows) |->
                         IF \E k \in 1 .. n : idx[k] = j
                         THEN rloo[CHOOSE k \in 1 .. n : idx[k] = j]
                         ELSE baseline[j]]
       IN  RlooLoop(rows, kl_penalty2, prompts \ {u}, written)

get_rloo_baseline(rows, kl_penalty2) ==
  LET unique_prompts == {rows[i].prompt_tokens : i \in 1 .. Len(rows)}
      zeros == [i \in 1 .. Len(rows) |-> <<0, 1>>]
      b == RlooLoop(rows, kl_penalty2, unique_prompts, zeros)
  IN  [i \in 1 .. Len(rows) |-> [rows[i] EXCEPT !.baseline = b[i]]]

\* compute_global_rollout_metrics, lines 309-320: the local sums as a float32 tensor
tensor_to_accumulate(rows) ==
  LET col(f(_)) == SeqSum([i \in 1 .. Len(rows) |-> f(rows[i])])
      lengths(r) == r.response_length - r.prompt_length
      prompts(r) == r.prompt_length
      rm(r)      == 2 * r.rm_rewards
      ifeval(r)  == 2 * r.ifeval_rewards
  IN  <<F32(col(lengths)), F32(col(prompts)), F32(col(rm)), F32(col(rm)),
        F32(col(ifeval)), F32(Len(rows))>>

\* line 321: all_reduce, the element-wise sum over the workers 0 .. w
RECURSIVE all_reduce(_, _)
all_reduce(tensors, w) ==
  IF w = 0 THEN tensors[0]
  ELSE LET rest == all_reduce(tensors, w - 1)
       IN  [i \in 1 .. 6 |-> F32(rest[i] + tensors[w][i])]

\* lines 323-339: each mean is <<sum, n>>, standing for sum / (n + 1e-6)
compute_global_rollout_metrics(allrows) ==
  LET g == all_reduce([w \in Workers |-> tensor_to_accumulate(allrows[w])], dp_size - 1)
  IN  [global_response_lengths_mean |-> <<g[1], g[6]>>,
       global_prompt_lengths |-> <<g[2], g[6]>>,
       global_rewards |-> <<g[3], g[6]>>,
       global_rm_rewards |-> <<g[4], g[6]>>,
       global_ifeval_rewards |-> <<g[5], g[6]>>]

\* a sample as the reward critic hands it back, before blending
ScoredRow(prompt, pl, rl, klt, rm, ifr, ifm) ==
  [prompt_tokens |-> prompt, prompt_length |-> pl, response_length |-> rl,
   kl_tokens |-> klt, rm_rewards |-> rm, ifeval_rewards |-> ifr, ifeval_mask |-> ifm,
   rewards |-> 0, mask |-> <<>>, init_policy_kl |-> <<0, 1>>, baseline |-> <<0, 1>>]

\* prompts of two tokens: any two of them agree in some position or differ in both
Prompts == {<<0, 0>>, <<0, 1>>, <<1, 1>>}

\* the configurations of a cycle whose microbatches hold mbs prompts each
BatchCfgs(mbs, gens, dups) ==
  { [c EXCEPT !.micro_batch_size = mbs] :
      c \in { x \in Configs(dp_size, {1}, {1}, {-1}, {1}, gens, dups, {0}, {TRUE}) :
                x.model_gbs = dp_size } }

InitIdle(cfgs) ==
  /\ cfg \in cfgs
  /\ dataLen = [w \in AllWorkers |-> 0]
  /\ pc = [w \in AllWorkers |-> "off"]
  /\ max_steps = [w \in AllWorkers |-> set_max_steps(cfg)]
  /\ step = [w \in AllWorkers |-> 0]
  /\ consumed_samples = [w \in AllWorkers |-> 0]
  /\ reinforce_optimization_step = [w \in AllWorkers |-> 0]
  /\ loc = [w \in AllWorkers |-> LocInit]
  /\ outstanding = [w \in AllWorkers |-> 0]
  /\ collLog = [w \in AllWorkers |-> <<>>]
  /\ obs = [w \in AllWorkers |-> ObsInit]
  /\ sd = [w \in AllWorkers |-> NoDict]
  /\ persisted = [w \in AllWorkers |-> NoDict]
  /\ loadResult = [w \in AllWorkers |-> "none"]

\* every worker holds at most one scored sample; both paths, two multiplier pairs
\* (0.5 and 2; 1 and 1)
InitScored ==
  /\ dp_size \in 1 .. DP
  /\ InitIdle(BatchCfgs(1, {1}, {1}))
  /\ \E path \in {"train", "val"}, mult \in {<<1, 4>>, <<2, 2>>} :
     \E rows \in [AllWorkers ->
                    {<<>>} \cup {<<ScoredRow(<<0, 0>>, 1, 2, [p \in 1 .. MaxSeq |-> 0],
                                             rm, ifr, ifm)>> :
                                   rm \in 0 .. MaxReward, ifr \in {0, 1}, ifm \in {0, 1}}] :
       /\ \A w \in AllWorkers \ Workers : rows[w] = <<>>
       /\ batch = [stage |-> "scored", path |-> path, rm_multiplier2 |-> mult[1],
                   ifeval_multiplier2 |-> mult[2], kl_penalty2 |-> 0,
                   baseline |-> "none", rows |-> rows, metrics |-> <<>>]

\* one blended sample with every per-token KL row and every pair of lengths
InitBlended ==
  /\ dp_size = 1
  /\ InitIdle(BatchCfgs(1, {1}, {1}))
  /\ \E klt \in [1 .. MaxSeq -> (-1) .. MaxKL], pl \in 1 .. MaxSeq, kl_penalty2 \in {0, 2} :
     \E rl \in pl .. (MaxSeq + 1) :
       batch = [stage |-> "blended", path |-> "train", rm_multiplier2 |-> 2,
                ifeval_multiplier2 |-> 2, kl_penalty2 |-> kl_penalty2, baseline |-> "none",
                rows |-> [w \in AllWorkers |->
                            IF w = 0 THEN <<ScoredRow(<<0, 0>>, pl, rl, klt, 0, 0, 0)>>
                            ELSE <<>>],
                metrics |-> <<>>]

\* one record of up to MaxRows samples with every choice of prompts and rewards,
\* after its KL penalty was computed (zero, or 1 on every other sample)
InitPenalized ==
  /\ dp_size = 1
  /\ \E n \in 1 .. MaxRows, k \in {0, 1} :
     \E choice \in [1 .. n -> Prompts \X (0 .. MaxReward)] :
       LET row(i) ==
             LET scored == ScoredRow(choice[i][1], 1, MaxSeq + 1,
                                     [p \in 1 .. MaxSeq |-> k * (i % 2)], choice[i][2], 0, 0)
                 blended == [scored EXCEPT !.rewards = TrainReward(choice[i][2], 0, 0, 1, 4)]
             IN  kl_and_mask(blended, TRUE)
       IN  /\ InitIdle(BatchCfgs(n, {1}, {1}))
           /\ batch = [stage |-> "kl", path |-> "train", rm_multiplier2 |-> 1,
                       ifeval_multiplier2 |-> 4, kl_penalty2 |-> 2, baseline |-> "RLOO",
                       rows |-> [w \in AllWorkers |->
                                   IF w = 0 THEN [i \in 1 .. n |-> row(i)] ELSE <<>>],
                       metrics |-> <<>>]

\* a training microbatch of up to MaxMicro prompts is about to be generated from,
\* under every duplicate_prompts and generation_iter
InitMicrobatch ==
  /\ dp_size = 1
  /\ \E n \in 1 .. MaxMicro :
     \E text \in [1 .. n -> Prompts] :
       /\ InitIdle(BatchCfgs(n, 1 .. MaxGen, 1 .. MaxDup))
       /\ batch = [stage |-> "generating", path |-> "train", rm_multiplier2 |-> 1,
                   ifeval_multiplier2 |-> 4, kl_penalty2 |-> 2, baseline |-> "RLOO",
                   rows |-> [w \in AllWorkers |-> <<>>], metrics |-> <<>>,
                   text |-> text, rounds |-> 0]

InitBatch == InitScored \/ InitBlended \/ InitPenalized \/ InitMicrobatch

UNCHANGED_RUN ==
  UNCHANGED <<cfg, dp_size, dataLen, pc, step, consumed_samples, reinforce_optimization_step,
              max_steps, loc, outstanding, collLog, obs, sd, persisted, loadResult>>

\* _run_inference, lines 192-199: [text] * duplicate_prompts, concatenated
duplicated_Once(text, duplicate_prompts) == text
RECURSIVE duplicated(_, _)
duplicated(text, duplicate_prompts) ==
  IF duplicate_prompts = 0 THEN <<>>
  ELSE text \o duplicated(text, duplicate_prompts - 1)

\* _run_inference, lines 200-237: one generation round of a microbatch appends the
\* duplicated prompts, with the round's responses and scores, to current_batch
GenerationRound ==
  /\ batch.stage = "generating"
  /\ LET prompt_tokens == duplicated(batch.text, cfg.duplicate_prompts)
         had == Len(batch.rows[0])
         rollout_batch ==
           [j \in 1 .. Len(prompt_tokens) |->
              ScoredRow(prompt_tokens[j], 1, MaxSeq + 1, [p \in 1 .. MaxSeq |-> 0],
                        (had + j) % (MaxReward + 1), 0, 0)]
         rounds == batch.rounds + 1
     IN  batch' = [batch EXCEPT
                     !.rows = [w \in AllWorkers |->
                                 IF w = 0 THEN batch.rows[0] \o rollout_batch ELSE <<>>],
                     !.rounds = rounds,
                     !.stage = IF rounds = cfg.generation_iter THEN "scored"
                               ELSE "generating"]
  /\ UNCHANGED_RUN

\* _run_inference, lines 224-237: the training path blends the two rewards
BlendTrain ==
  /\ batch.stage = "scored" /\ batch.path = "train"
  /\ LET blend(r) == [r EXCEPT !.rewards =
                         TrainReward(r.rm_rewards, r.ifeval_rewards, r.ifeval_mask,
                                     batch.rm_multiplier2, batch.ifeval_multiplier2)]
     IN  batch' = [batch EXCEPT !.rows = [w \in AllWorkers |->
                            [i \in 1 .. Len(batch.rows[w]) |-> blend(batch.rows[w][i])]], !.stage = "blended"]
  /\ UNCHANGED_RUN

\* _run_inference, lines 267-271: the validation path blends the two rewards
BlendVal ==
  /\ batch.stage = "scored" /\ batch.path = "val"
  /\ LET blend(r) == [r EXCEPT !.rewards =
                         ValReward(r.rm_rewards, r.ifeval_rewards, r.ifeval_mask,
                                   batch.rm_multiplier2, batch.ifeval_multiplier2)]
     IN  batch' = [batch EXCEPT !.rows = [w \in AllWorkers |->
                            [i \in 1 .. Len(batch.rows[w]) |-> blend(batch.rows[w][i])]], !.stage = "blended"]
  /\ UNCHANGED_RUN

\* _run_inference, lines 240-251: mask and per-sample KL penalty
KlPenalty ==
  /\ batch.stage = "blended" /\ batch.path = "train"
  /\ LET kl(r) == kl_and_mask(r, batch.kl_penalty2 > 0)
     IN  batch' = [batch EXCEPT !.rows = [w \in AllWorkers |->
                            [i \in 1 .. Len(batch.rows[w]) |-> kl(batch.rows[w][i])]], !.stage = "kl"]
  /\ UNCHANGED_RUN

\* _run_inference, lines 252-254: cfg.baseline == "RLOO"
RlooBaseline ==
  /\ batch.stage = "kl" /\ batch.baseline = "RLOO"
  /\ batch' = [batch EXCEPT
                 !.rows = [w \in AllWorkers |-> get_rloo_baseline(batch.rows[w], batch.kl_penalty2)],
                 !.stage = "baseline"]
  /\ UNCHANGED_RUN

\* _run_inference, lines 255-256: zeros_like(rewards)
ZeroBaseline ==
  /\ batch.stage = "kl" /\ batch.baseline # "RLOO"
  /\ LET zero(r) == [r EXCEPT !.baseline = <<0, 1>>]
     IN  batch' = [batch EXCEPT !.rows = [w \in AllWorkers |->
                            [i \in 1 .. Len(batch.rows[w]) |-> zero(batch.rows[w][i])]], !.stage = "baseline"]
  /\ UNCHANGED_RUN

\* _run_inference, line 275: the cycle's records are reduced to global metrics
GlobalMetrics ==
  /\ \/ batch.stage = "baseline" /\ batch.path = "train"
     \/ batch.stage = "blended" /\ batch.path = "val"
  /\ batch' = [batch EXCEPT !.metrics = compute_global_rollout_metrics(batch.rows),
                            !.stage = "reduced"]
  /\ UNCHANGED_RUN

NextBatch ==
  \/ BlendTrain \/ BlendVal \/ KlPenalty \/ RlooBaseline \/ ZeroBaseline \/ GlobalMetrics
  \/ GenerationRound

SpecBatch == InitBatch /\ [][NextBatch]_vars

\* ------------------------------------------------------- properties

\* the worker is collecting training rollouts or running the training sub-loop
InTrainingPath(w) ==
  \/ pc[w] \in {"mb_head", "train_round", "assemble", "pad", "consume", "train"}
  \/ pc[w] \in {"metrics", "wait"} /\ loc[w].after \in {"assemble", "pad", "consume"}

\* C1: on the training path the reference-policy log-probabilities of a round are
\* requested while that round's reward-critic request is still outstanding
\* (after it is issued, before it is joined).
C1_RefLogprobsWhileCriticOutstanding ==
  \A w \in Workers : obs[w].initlps > 0 => obs[w].lpOutstanding = 1

\* C2: whatever the workers observe locally (here: the length of their own data
\* source; no run timer has expired), they enter the same collectives in the same
\* order, and no worker waits in a collective that a worker which has left fit
\* never enters.
C2_SameCollectivesOnEveryWorker ==
  (\A u \in Workers : ~obs[u].expired) =>
    \A w, v \in Workers :
      /\ \A i \in 1 .. Min(Len(collLog[w]), Len(collLog[v])) : collLog[w][i] = collLog[v][i]
      /\ ~(/\ pc[w] = "wait"
           /\ pc[v] \in {"returned", "error"}
           /\ Len(collLog[v]) < Len(collLog[w]))

\* C3: at most one reward-critic request is outstanding at any time, and a new
\* one is issued only when the previous one has been joined.
C3_OneOutstandingRequest ==
  \A w \in Workers :
    /\ outstanding[w] <= 1
    /\ CurOp(w) = "critic_issue" => outstanding[w] = 0

\* C3 witness: a validation request is outstanding after earlier training requests
C3_Witness ==
  \E w \in Workers : outstanding[w] = 1 /\ pc[w] = "val_round" /\ obs[w].critics >= 3

\* C4: once a step has found the data source exhausted, the fit call does no
\* further rollout collection, training, validation or saving.
C4_ExhaustionEndsFit ==
  \A w \in Workers :
    obs[w].brk => pc[w] \in {"epoch_next", "epoch_head", "step_head", "returned"}

\* C5: step never exceeds max_steps, and no rollout collection or training
\* sub-step is under way once step equals max_steps.
C5_StepBoundedByMaxSteps ==
  \A w \in Workers :
    /\ step[w] <= max_steps[w]
    /\ step[w] = max_steps[w] => ~InTrainingPath(w)

\* C5 witness: fit returned at max_steps after completing two steps
C5_Witness ==
  \E w \in Workers : pc[w] = "returned" /\ step[w] = max_steps[w] /\ obs[w].completed >= 2

\* C6: a step that found fewer remaining microbatches than required performs no
\* inference, reward-critic request, training sub-step, validation or save, and
\* leaves step, consumed_samples and the optimization-step counter unchanged.
C6_AbortedStepHasNoEffect ==
  \A w \in Workers :
    obs[w].short => <<Counters(w), CallCounts(w)>> = obs[w].snap

\* C6 witness: a step was aborted after an earlier step had completed
C6_Witness ==
  \E w \in Workers : obs[w].short /\ obs[w].brk /\ obs[w].completed >= 1 /\ pc[w] = "returned"

\* C7: the run timer is checked exactly once per completed step, right after the
\* step increment, and once it reports expiry only that step's validation and
\* checkpoint handling follow: no further rollout collection or training.
C7_TimerCheckedOncePerStep ==
  \A w \in Workers :
    /\ obs[w].timerChecks =
         IF pc[w] = "timer_check" THEN obs[w].completed - 1 ELSE obs[w].completed
    /\ obs[w].expired =>
         /\ ~InTrainingPath(w)
         /\ pc[w] \in {"val_mb_head", "val_round", "metrics", "wait", "save_check",
                       "barrier", "save_write", "decide", "returned"}

\* C7 witness: fit returned on timer expiry after validating and saving that step
C7_Witness ==
  \E w \in Workers :
    /\ pc[w] = "returned" /\ obs[w].expired
    /\ obs[w].vals >= 1 /\ obs[w].saves >= 1 /\ step[w] < max_steps[w]

\* every worker has just run load_state_dict
AllLoaded == \A w \in Workers : loadResult[w] # "none"

\* C8: load_state_dict fails on every worker whose loaded values differ from
\* rank 0's, and completes on every worker when all workers load the same values.
C8_MismatchFatalElseCompletes ==
  AllLoaded =>
    /\ \A w \in Workers :
         load_state_dict(sd[w]) # load_state_dict(sd[0]) => loadResult[w] = "assert"
    /\ (\A w \in Workers : load_state_dict(sd[w]) = load_state_dict(sd[0]))
         => \A w \in Workers : loadResult[w] = "ok"

\* C9: loading a worker's own snapshot leaves step, consumed_samples and the
\* optimization-step counter at their values at the snapshot, and max_steps at
\* the value computed at construction.
C9_CheckpointRoundTrip ==
  \A w \in Workers :
    (loadResult[w] # "none" /\ obs[w].own) =>
      /\ Counters(w) = obs[w].pre
      /\ max_steps[w] = set_max_steps(cfg)

\* C9 witness: a restarted trainer restored non-zero counters from its snapshot
C9_Witness ==
  \E w \in Workers :
    /\ loadResult[w] = "ok" /\ obs[w].own
    /\ step[w] > 0 /\ reinforce_optimization_step[w] > step[w]

C11_BadSamplerRejectedBeforeAnyWork ==
  \A w \in Workers :
    pc[w] # "fit_start" =>
      IF cfg.max_epochs > 1 /\ ~cfg.random_sampler
      THEN /\ pc[w] = "error"
           /\ Counters(w) = obs[w].start
           /\ CallCounts(w) = <<0, 0, 0, 0, 0>>
           /\ obs[w].rollouts = 0
      ELSE pc[w] = "error" => obs[w].rollouts > 0

\* C11 witness: a restored trainer (step > 0) was rejected
C11_Witness ==
  \E w \in Workers :
    /\ pc[w] = "error" /\ ~cfg.random_sampler /\ cfg.max_epochs > 1
    /\ step[w] > 0 /\ obs[w].start = Counters(w)

\* C12: max_steps is num_steps_per_epoch * max_epochs when the override is absent
\* or negative, and the smaller of that product and the override when the
\* override is >= 0; with 3 epochs of 10 steps it is 30 without an override,
\* 25 with the override 25 and 30 with the override -1.
C12_MaxStepsFormula ==
  /\ \A w \in Workers :
        LET product == cfg.num_steps_per_epoch * cfg.max_epochs
        IN  max_steps[w] = IF cfg.max_steps < 0 THEN product
                           ELSE IF cfg.max_steps < product THEN cfg.max_steps
                           ELSE product
  /\ set_max_steps([max_epochs |-> 3, num_steps_per_epoch |-> 10, max_steps |-> -1]) = 30
  /\ set_max_steps([max_epochs |-> 3, num_steps_per_epoch |-> 10, max_steps |-> 25]) = 25
  /\ set_max_steps([max_epochs |-> 3, num_steps_per_epoch |-> 10, max_steps |-> 40]) = 30

\* C12 witness: fit ran up to an override smaller than the product and returned
C12_Witness ==
  \E w \in Workers :
    /\ cfg.max_steps >= 1 /\ cfg.max_steps < cfg.num_steps_per_epoch * cfg.max_epochs
    /\ pc[w] = "returned" /\ step[w] = cfg.max_steps /\ obs[w].completed >= 1

\* samples this worker has generated since the current step began: every
\* inference call yields micro_batch_size * duplicate_prompts samples
StepSamples(w) ==
  (obs[w].infers - obs[w].snap[2][1]) * cfg.micro_batch_size * cfg.duplicate_prompts

\* C17: consumed_samples never decreases; it changes only when a training-path
\* rollout cycle is counted, and then by the number of samples in this worker's
\* assembled batch times the data-parallel world size; validation, training
\* sub-steps and saves leave it unchanged.
C17_ConsumedSamplesGrowsByBatchTimesWorkers ==
  [][\A w \in Workers :
       /\ consumed_samples'[w] >= consumed_samples[w]
       /\ (pc[w] = "consume" /\ pc'[w] # "consume") =>
             consumed_samples'[w] - consumed_samples[w] = StepSamples(w) * dp_size
       /\ consumed_samples'[w] # consumed_samples[w] =>
             (pc[w] = "consume" /\ pc'[w] # "consume")]_vars

\* C17 witness: with two workers, a second rollout cycle has been counted after a
\* step that validated and saved
C17_Witness ==
  \E w \in Workers :
    /\ dp_size >= 2 /\ pc[w] = "train" /\ obs[w].completed >= 1
    /\ obs[w].vals >= 1 /\ obs[w].saves >= 1
    /\ obs[w].snap[1][2] > 0 /\ consumed_samples[w] > obs[w].snap[1][2]

\* C18: every training sub-step consumes a chunk of exactly model_gbs / dp_size
\* samples and advances the optimization-step counter by one, and when a step
\* completes the chunks add up to the assembled buffer, their number being
\* rollout_size / (model_gbs / dp_size).
C18_TrainingConsumesEqualChunks ==
  [][\A w \in Workers :
       /\ obs'[w].trains # obs[w].trains =>
             /\ obs'[w].trains = obs[w].trains + 1
             /\ loc'[w].trained - loc[w].trained = cfg.model_gbs \div dp_size
             /\ reinforce_optimization_step'[w] = reinforce_optimization_step[w] + 1
       /\ reinforce_optimization_step'[w] # reinforce_optimization_step[w] =>
             obs'[w].trains = obs[w].trains + 1
       /\ obs'[w].completed # obs[w].completed =>
             /\ loc[w].trained = StepSamples(w)
             /\ (reinforce_optimization_step[w] - obs[w].snap[1][3])
                   * (cfg.model_gbs \div dp_size) = StepSamples(w)]_vars

\* C18 witness: a step completed after several chunks of more than one sample
C18_Witness ==
  \E w \in Workers :
    /\ pc[w] = "timer_check" /\ cfg.model_gbs \div dp_size >= 2
    /\ reinforce_optimization_step[w] - obs[w].snap[1][3] >= 2
    /\ loc[w].trained = loc[w].rollout_size

\* the worker is past the step increment of the current step
AfterIncrement(w) ==
  \/ pc[w] \in {"timer_check", "val_mb_head", "val_round", "save_check", "barrier",
                 "save_write", "decide"}
  \/ pc[w] \in {"metrics", "wait"} /\ loc[w].after \in {"save_check", "save_write"}

\* C19: within a step, rollout collection and training come first, with step
\* unchanged and no validation or save; then step is incremented by exactly 1;
\* validation comes before the save; and a checkpoint saved in the step
\* records the incremented step.
C19_PhasesInOrder ==
  \A w \in Workers :
    /\ InTrainingPath(w) =>
          /\ step[w] = obs[w].snap[1][1]
          /\ obs[w].vals = obs[w].snap[2][4] /\ obs[w].saves = obs[w].snap[2][5]
    /\ AfterIncrement(w) =>
          /\ step[w] = obs[w].snap[1][1] + 1
          /\ loc[w].chunksLeft = 0 /\ loc[w].trained = loc[w].rollout_size
          /\ obs[w].trains > obs[w].snap[2][3]
    /\ (pc[w] \in {"val_mb_head", "val_round"}
          \/ (pc[w] \in {"metrics", "wait"} /\ loc[w].after = "save_check")) =>
          obs[w].saves = obs[w].snap[2][5]
    /\ (pc[w] = "decide" /\ obs[w].saves > obs[w].snap[2][5]) =>
          /\ obs[w].saves = obs[w].snap[2][5] + 1
          /\ persisted[w]["step"] = obs[w].snap[1][1] + 1

\* C19 witness: the second step of a run validated and then saved
C19_Witness ==
  \E w \in Workers :
    /\ pc[w] = "decide" /\ obs[w].completed >= 2
    /\ obs[w].vals > obs[w].snap[2][4] /\ obs[w].saves > obs[w].snap[2][5]

\* C20: when a step does not complete because a failure propagates out of it,
\* step, consumed_samples and the optimization-step counter hold the values
\* they had at the start of that step.
C20_FailedStepLeavesCounters ==
  \A w \in Workers : obs[w].failed => Counters(w) = obs[w].snap[1]

\* the samples of a record that share the full prompt-token sequence of sample i
GroupOf(rows, i) == {j \in 1 .. Len(rows) : rows[j].prompt_tokens = rows[i].prompt_tokens}

\* sum of the regularized rewards (numerators) of the other members of i's group
OthersRegularized(rows, i) ==
  SeqSum([j \in 1 .. Len(rows) |->
            IF j # i /\ j \in GroupOf(rows, i)
            THEN regularized_reward(rows[j], batch.kl_penalty2) ELSE 0])

BaselineWritten == batch.stage \in {"baseline", "reduced"} /\ batch.baseline = "RLOO"

\* C13: with the RLOO baseline, the baseline of every sample whose prompt group has
\* n >= 2 members is the sum of the regularized rewards (reward - kl coefficient *
\* per-sample KL) of the other n-1 members of its group divided by n-1, at the
\* sample's own index; a group of two with regularized rewards [a, b] gets [b, a];
\* samples of other groups contribute nothing.
C13_RlooBaselineIsMeanOfOthers ==
  BaselineWritten =>
    \A w \in Workers : \A i \in 1 .. Len(batch.rows[w]) :
      LET rows == batch.rows[w]
          n    == Cardinality(GroupOf(rows, i))
          den  == rows[i].init_policy_kl[2]
          b    == rows[i].baseline
      IN  n >= 2 =>
            /\ b[2] # 0
            /\ b[1] * ((n - 1) * den) = OthersRegularized(rows, i) * b[2]
            /\ n = 2 => \A j \in GroupOf(rows, i) \ {i} :
                          b[1] * den = regularized_reward(rows[j], batch.kl_penalty2) * b[2]

\* C13 witness: a record with a group of at least two samples whose regularized
\* rewards differ, one of them penalized, next to a sample of another group with a
\* regularized reward that is not zero.
C13_Witness ==
  /\ BaselineWritten
  /\ \E w \in Workers : \E i, j, k \in 1 .. Len(batch.rows[w]) :
       LET rows == batch.rows[w]
           reg(x) == regularized_reward(rows[x], batch.kl_penalty2)
       IN  /\ i # j /\ j \in GroupOf(rows, i) /\ k \notin GroupOf(rows, i)
           /\ reg(i) # reg(j) /\ reg(k) # 0
           /\ rows[i].init_policy_kl[1] # 0
           /\ rows[k].prompt_tokens[1] = rows[i].prompt_tokens[1]

Blended == batch.stage \in {"blended", "kl", "baseline", "reduced"}

\* C14: every sample's reward follows the formula of its path. Training:
\* rm_reward * rm_multiplier + mask * constraint_reward * constraint_multiplier.
\* Validation: constraint_multiplier * mask * constraint_reward + (1 - mask) *
\* rm_reward. For rm_reward 2, constraint_reward 1, mask 1, rm_multiplier 0.5 and
\* constraint_multiplier 2 training gives 3 and validation gives 2 (held doubled:
\* multipliers 1 and 4, rewards 6 and 4).
C14_RewardBlendingPerPath ==
  Blended =>
    \A w \in Workers : \A i \in 1 .. Len(batch.rows[w]) :
      LET r == batch.rows[w][i]
          example == /\ r.rm_rewards = 2 /\ r.ifeval_rewards = 1 /\ r.ifeval_mask = 1
                     /\ batch.rm_multiplier2 = 1 /\ batch.ifeval_multiplier2 = 4
      IN  /\ batch.path = "train" =>
               /\ r.rewards = r.rm_rewards * batch.rm_multiplier2
                                + r.ifeval_mask * r.ifeval_rewards * batch.ifeval_multiplier2
               /\ example => r.rewards = 2 * 3
          /\ batch.path = "val" =>
               /\ r.rewards = batch.ifeval_multiplier2 * r.ifeval_mask * r.ifeval_rewards
                                + (1 - r.ifeval_mask) * (2 * r.rm_rewards)
               /\ example => r.rewards = 2 * 2

\* C14 witness: the training path has blended the sample of the example
\* (rm_reward 2, constraint_reward 1, mask 1, multipliers 0.5 and 2) on every worker.
C14_Witness ==
  /\ batch.stage = "blended" /\ batch.path = "train"
  /\ batch.rm_multiplier2 = 1 /\ batch.ifeval_multiplier2 = 4
  /\ dp_size = DP
  /\ \A w \in Workers :
       /\ Len(batch.rows[w]) = 1
       /\ batch.rows[w][1].rm_rewards = 2
       /\ batch.rows[w][1].ifeval_rewards = 1
       /\ batch.rows[w][1].ifeval_mask = 1
       /\ batch.rows[w][1].rewards = 6

\* the sum of the blended rewards of all samples on the workers 0 .. w
RECURSIVE BlendedSum(_)
BlendedSum(w) ==
  LET own == SeqSum([i \in 1 .. Len(batch.rows[w]) |-> batch.rows[w][i].rewards])
  IN  IF w = 0 THEN own ELSE own + BlendedSum(w - 1)

\* C15: the reported global combined-reward mean is the sum of the combined
\* (blended) rewards of all samples of all workers divided by the global sample
\* count (plus epsilon).
C15_GlobalRewardsFromBlendedRewards ==
  batch.stage = "reduced" =>
    /\ batch.metrics.global_rewards[1] = BlendedSum(dp_size - 1)
    /\ batch.metrics.global_rewards[2] =
         Cardinality({<<w, i>> \in Workers \X (1 .. MaxRows) : i <= Len(batch.rows[w])})

Penalized == batch.stage \in {"kl", "baseline", "reduced"} /\ batch.path = "train"

\* C16: the per-sample KL penalty is the sum of the per-token KL values at the
\* mask-valid positions divided by the number of mask-valid positions, and it is
\* zero for every sample when the KL penalty is disabled.
C16_PerSampleKlIsMaskedMean ==
  Penalized =>
    \A w \in Workers : \A i \in 1 .. Len(batch.rows[w]) :
      LET r      == batch.rows[w][i]
          valid  == {p \in 1 .. Len(r.mask) : r.mask[p] = 1}
          masked == SeqSum([p \in 1 .. Len(r.mask) |->
                              IF p \in valid THEN r.kl_tokens[p] ELSE 0])
          kl     == r.init_policy_kl
      IN  /\ batch.kl_penalty2 = 0 => kl[1] = 0 /\ kl[2] # 0
          /\ batch.kl_penalty2 > 0 /\ valid # {} =>
               kl[2] # 0 /\ kl[1] * Cardinality(valid) = masked * kl[2]

\* C21: epoch is floor(step / num_steps_per_epoch) in every state, also after a
\* restore: load_state_dict does not read the epoch stored in the state dict, so
\* a state dict whose epoch disagrees with its step leaves epoch following step.
C21_EpochFollowsStep ==
  \A w \in Workers :
    LET e   == state_dict(w)["epoch"]
        spe == cfg.num_steps_per_epoch
    IN  /\ e * spe <= step[w] /\ step[w] < (e + 1) * spe
        /\ loadResult[w] # "none" =>
             /\ step[w] = sd[w]["step"]
             /\ e * spe <= sd[w]["step"] /\ sd[w]["step"] < (e + 1) * spe

\* C21 witness: every worker restored, without error, a state dict whose stored
\* epoch disagrees with its step, and stands in a later epoch than the first.
C21_Witness ==
  \A w \in Workers :
    /\ loadResult[w] = "ok" /\ ~obs[w].own
    /\ sd[w]["epoch"] # sd[w]["step"] \div cfg.num_steps_per_epoch
    /\ step[w] \div cfg.num_steps_per_epoch >= 1

\* C22: all workers leave fit at the same step boundary. Once a worker has
\* returned from fit, no other worker has begun a step that worker never began or
\* entered a collective that worker never entered, and workers that have returned
\* stand at the same step (stated for runs in which no run timer has expired).
C22_WorkersStopAtSameStep ==
  (\A u \in Workers : ~obs[u].expired) =>
    \A w, v \in Workers :
      pc[w] = "returned" =>
        /\ obs[v].rollouts <= obs[w].rollouts
        /\ Len(collLog[v]) <= Len(collLog[w])
        /\ pc[v] = "returned" => step[v] = step[w]

\* the record of a worker has been accumulated over all its generation rounds
Accumulated == batch.stage \in {"scored", "blended", "kl", "baseline", "reduced"}

\* C23: on the training path with the RLOO baseline every prompt group of an
\* accumulated record has a size that is a positive multiple of duplicate_prompts *
\* generation_iter; when that product is at least 2 no group is a singleton and no
\* baseline has a zero divisor; when it is 1, a sample whose prompt occurs once in
\* its record is a singleton group and its baseline is a division by zero.
C23_GroupSizesAreMultiples ==
  (Accumulated /\ batch.path = "train" /\ batch.baseline = "RLOO") =>
    \A w \in Workers : \A i \in 1 .. Len(batch.rows[w]) :
      LET rows == batch.rows[w]
          n    == Cardinality(GroupOf(rows, i))
          m    == cfg.duplicate_prompts * cfg.generation_iter
      IN  /\ n >= m /\ n % m = 0
          /\ Len(rows) = cfg.micro_batch_size * m
          /\ BaselineWritten =>
               /\ m >= 2 => n >= 2 /\ rows[i].baseline[2] # 0
               /\ (m = 1 /\ n = 1) => rows[i].baseline[2] = 0

\* C23 witness: a microbatch of two different prompts, duplicated and generated
\* from twice, has received its baselines: two groups of four samples each.
C23_Witness ==
  /\ BaselineWritten
  /\ cfg.duplicate_prompts = 2 /\ cfg.generation_iter = 2 /\ cfg.micro_batch_size = 2
  /\ Len(batch.rows[0]) = 8
  /\ Cardinality(GroupOf(batch.rows[0], 1)) = 4
  /\ \A i \in 1 .. 8 : batch.rows[0][i].baseline[2] # 0

\* nothing stands in the way of the run: no run timer has reported expiry, no step
\* has found its data source short, and no call has raised
NoObstacle ==
  \A w \in Workers :
    ~obs[w].expired /\ ~obs[w].short /\ ~obs[w].failed /\ pc[w] # "error"

\* every worker has returned from fit at max_steps, having executed exactly the
\* steps between its starting step and max_steps, one rollout collection each
Completed ==
  \A w \in Workers :
    /\ pc[w] = "returned" /\ step[w] = max_steps[w]
    /\ obs[w].completed = max_steps[w] - obs[w].start[1]
    /\ obs[w].rollouts = obs[w].completed

\* C24: from any starting step s <= max_steps, if the run timer never reports
\* expiry and the data source always has enough microbatches (and no call
\* raises), fit eventually returns with step = max_steps after executing exactly
\* max_steps - s steps; with max_steps - s = 0 it collects no rollout.
C24_ProgressToCompletion == []NoObstacle => <>Completed

\* C24 witness: a trainer restored at a step other than 0 ran at least two steps,
\* into a second epoch, and returned at max_steps with no obstacle on the way.
C24_Witness ==
  /\ NoObstacle /\ Completed
  /\ \E w \in Workers :
       /\ obs[w].start[1] >= 1 /\ obs[w].completed >= 2
       /\ epoch(obs[w].start[1], cfg) < epoch(step[w] - 1, cfg)

\* C25: when fit has returned normally after executing at least one step, the
\* logger's finalize has been called exactly once, and it is not called while
\* the worker still has steps to execute (before fit returns).
C25_FinalizeOnceOnReturn ==
  \A w \in Workers :
    /\ (pc[w] = "returned" /\ obs[w].completed >= 1) => obs[w].finalizes = 1
    /\ pc[w] # "returned" => obs[w].finalizes = 0

====
